---- MODULE Spec2Model ----
(***************************************************************************)
(* The surface session of luminance-surfman (src/src/lib.rs): construction *)
(* from a winit window, back_buffer, swap_buffers, set_size and Drop, as a *)
(* state machine over the surfman device's binding state.                  *)
(*                                                                         *)
(* One action is one device (or backend) call of a method together with    *)
(* the error handling the code attaches to it (`map_err(..)?`, `unwrap`),  *)
(* so the position inside a method is part of the state.  The surfman      *)
(* device, luminance and glow are external: every fallible call of theirs  *)
(* nondeterministically succeeds or fails with an error of DeviceErrors.   *)
(* A Rust value that goes out of scope without destroy_surface /           *)
(* destroy_context having been called on it is recorded as "leaked".       *)
(***************************************************************************)
EXTENDS Integers, Sequences, FiniteSets, TLC

\* Width, in bits, of the model's u32 / i32 (the code's are 32 bits wide).
IntBits == 3

\* Most calls of swap_buffers that get as far as presenting the surface.
MaxPresents == 2

Modulus == 2 ^ IntBits
Half == 2 ^ (IntBits - 1)

\* Pixel counts a caller passes to set_size: the smallest, and the values
\* around the i32 sign bit and the u32 maximum.
Pixels == {1, Half - 1, Half, Modulus - 1}

\* Sizes of the window's surface as the device creates it.
InitSizes == {<<2, 1>>, <<3, 2>>}

\* surfman::Error values the device can fail with.
DeviceErrors == {"Failed", "ContextLost"}

NoSize == <<>>
NoArg == <<>>

VARIABLES
    pc,           \* position: the next step of the running method, or idle
    method,       \* the method running, or the last one that ran
    result,       \* what the last method returned: [kind, msg]
    dev,          \* the Device value: none, alive, dropped
    ctx,          \* the Context value: none, alive, destroyed, leaked
    surf,         \* the Surface value: none, bound, held, leaked, destroyed
    size,         \* the size the device holds for the surface (i32 pair)
    arg,          \* the argument of the running / last set_size (u32 pair)
    ret,          \* the dimensions of the target back_buffer returned
    prev,         \* the call before this one: [method, kind, arg]
    ops,          \* the calls issued by the running / last method, in order
    current,      \* make_context_current has succeeded on ctx
    nCurrent,     \* number of make_context_current calls
    backend,      \* the Glow backend: none, ready, dropped
    exposed,      \* backend() has handed out the backend
    nDestroy,     \* number of destroy_context calls
    devAtDestroy, \* state of the device when destroy_context was called
    entrySize,    \* size of the surface when the running method was entered
    droppedBound, \* a surface was let go of while bound, without an unbind
    logged,       \* Drop wrote its diagnostic line
    nPresent,     \* number of present_surface calls made on the device
    nSwapPresent  \* number of swap_buffers calls that reached their present

vars == <<pc, method, result, dev, ctx, surf, size, arg, ret, prev, ops,
          current, nCurrent, backend, exposed, nDestroy, devAtDestroy,
          entrySize, droppedBound, logged, nPresent, nSwapPresent>>

\* `x as i32` for a u32 x (line 168).
AsI32(x) == IF x >= Half THEN x - Modulus ELSE x

\* Faulty variant: a clamping conversion instead of the wrapping cast.
AsU32Saturating(y) == IF y < 0 THEN 0 ELSE y

\* `y as u32` for an i32 y (lines 130-131).
AsU32(y) == y % Modulus

Running == [kind |-> "running", msg |-> ""]
Ok == [kind |-> "Ok", msg |-> ""]

\* Faulty variant: the device error's text is lost.
surface_err_lossy(e) == [kind |-> "SurfaceError", msg |-> ""]

\* surface_err: SurfaceError carrying the Debug text of the device error.
surface_err(e) == [kind |-> "SurfaceError", msg |-> e]

\* `?` on a FramebufferError / StateQueryError goes through #[from].
FramebufferErr == [kind |-> "FramebufferError", msg |-> "back_buffer"]
GlErr == [kind |-> "GlError", msg |-> "state query"]
Panic == [kind |-> "panic", msg |-> "unwrap on None"]

Init ==
    /\ pc = "c_connection"
    /\ method = "from_winit_window"
    /\ result = Running
    /\ dev = "none"
    /\ ctx = "none"
    /\ surf = "none"
    /\ size = <<0, 0>>
    /\ arg = NoArg
    /\ ret = NoSize
    /\ prev = [method |-> "none", kind |-> "none", arg |-> NoArg]
    /\ ops = <<>>
    /\ current = FALSE
    /\ nCurrent = 0
    /\ backend = "none"
    /\ exposed = FALSE
    /\ nDestroy = 0
    /\ devAtDestroy = "none"
    /\ entrySize = <<0, 0>>
    /\ droppedBound = FALSE
    /\ logged = FALSE
    /\ nPresent = 0
    /\ nSwapPresent = 0

\* No present_surface call is made.
Unpresented == UNCHANGED <<nPresent, nSwapPresent>>

(***************************************************************************)
(* from_winit_window (lines 58-119).                                       *)
(***************************************************************************)

\* An early return of the constructor: the error is returned and the locals
\* created so far go out of scope.  Nothing on these paths calls
\* destroy_context, destroy_surface or unbind_surface_from_context.
CtorFail(r, op) ==
    /\ pc' = "ctor_failed"
    /\ result' = r
    /\ ops' = Append(ops, op)
    /\ dev' = IF dev = "alive" THEN "dropped" ELSE dev
    /\ ctx' = IF ctx = "alive" THEN "leaked" ELSE ctx
    /\ surf' = IF surf = "held" THEN "leaked" ELSE surf
    /\ droppedBound' = (droppedBound \/ surf = "bound")
    /\ backend' = IF backend = "ready" THEN "dropped" ELSE backend

\* A provider call of the constructor that creates a value the session
\* state does not track: it succeeds, or fails with a surface error.
CtorCall(here, next, op) ==
    /\ pc = here
    /\ \/ /\ pc' = next
          /\ ops' = Append(ops, op)
          /\ UNCHANGED <<result, dev, ctx, surf, droppedBound, backend>>
       \/ \E e \in DeviceErrors : CtorFail(surface_err(e), op)
    /\ UNCHANGED <<method, size, arg, ret, prev, current, nCurrent, exposed,
                   nDestroy, devAtDestroy, entrySize, logged>>
    /\ Unpresented

CtorConnection == CtorCall("c_connection", "c_widget", "connection")

CtorNativeWidget == CtorCall("c_widget", "c_adapter", "native_widget")

\* Faulty variant: a failure to create the adapter does not end construction.
CtorAdapterContinues ==
    /\ pc = "c_adapter"
    /\ pc' = "c_device"
    /\ ops' = Append(ops, "adapter")
    /\ \/ UNCHANGED result
       \/ \E e \in DeviceErrors : result' = surface_err(e)
    /\ UNCHANGED <<dev, ctx, surf, droppedBound, backend>>
    /\ UNCHANGED <<method, size, arg, ret, prev, current, nCurrent, exposed,
                   nDestroy, devAtDestroy, entrySize, logged>>
    /\ Unpresented

CtorAdapter == CtorCall("c_adapter", "c_device", "adapter")

CtorDevice ==
    /\ pc = "c_device"
    /\ \/ /\ pc' = "c_descriptor"
          /\ dev' = "alive"
          /\ ops' = Append(ops, "device")
          /\ UNCHANGED <<result, ctx, surf, droppedBound, backend>>
       \/ \E e \in DeviceErrors : CtorFail(surface_err(e), "device")
    /\ UNCHANGED <<method, size, arg, ret, prev, current, nCurrent, exposed,
                   nDestroy, devAtDestroy, entrySize, logged>>
    /\ Unpresented

CtorContextDescriptor ==
    CtorCall("c_descriptor", "c_context", "context_descriptor")

CtorContext ==
    /\ pc = "c_context"
    /\ \/ /\ pc' = "c_surface"
          /\ ctx' = "alive"
          /\ ops' = Append(ops, "create_context")
          /\ UNCHANGED <<result, dev, surf, droppedBound, backend>>
       \/ \E e \in DeviceErrors : CtorFail(surface_err(e), "create_context")
    /\ UNCHANGED <<method, size, arg, ret, prev, current, nCurrent, exposed,
                   nDestroy, devAtDestroy, entrySize, logged>>
    /\ Unpresented

CtorSurface ==
    /\ pc = "c_surface"
    /\ \/ /\ \E s \in InitSizes : size' = s
          /\ pc' = "c_bind"
          /\ surf' = "held"
          /\ ops' = Append(ops, "create_surface")
          /\ UNCHANGED <<result, dev, ctx, droppedBound, backend>>
       \/ /\ \E e \in DeviceErrors : CtorFail(surface_err(e), "create_surface")
          /\ UNCHANGED size
    /\ UNCHANGED <<method, arg, ret, prev, current, nCurrent, exposed,
                   nDestroy, devAtDestroy, entrySize, logged>>
    /\ Unpresented

\* bind_surface_to_context hands the surface back on failure; the closure
\* `|(e, _)|` lets go of it.
CtorBind ==
    /\ pc = "c_bind"
    /\ \/ /\ pc' = "c_current"
          /\ surf' = "bound"
          /\ ops' = Append(ops, "bind")
          /\ UNCHANGED <<result, dev, ctx, droppedBound, backend>>
       \/ \E e \in DeviceErrors : CtorFail(surface_err(e), "bind")
    /\ UNCHANGED <<method, size, arg, ret, prev, current, nCurrent, exposed,
                   nDestroy, devAtDestroy, entrySize, logged>>
    /\ Unpresented

\* Faulty variant: the backend is built without make_context_current.
CtorMakeCurrentSkipped ==
    /\ pc = "c_current"
    /\ pc' = "c_backend"
    /\ UNCHANGED <<method, result, dev, ctx, surf, size, arg, ret, prev, ops,
                   current, nCurrent, backend, exposed, nDestroy,
                   devAtDestroy, entrySize, droppedBound, logged>>
    /\ Unpresented

CtorMakeCurrent ==
    /\ pc = "c_current"
    /\ nCurrent' = nCurrent + 1
    /\ \/ /\ pc' = "c_backend"
          /\ current' = TRUE
          /\ ops' = Append(ops, "make_current")
          /\ UNCHANGED <<result, dev, ctx, surf, droppedBound, backend>>
       \/ /\ \E e \in DeviceErrors : CtorFail(surface_err(e), "make_current")
          /\ UNCHANGED current
    /\ UNCHANGED <<method, size, arg, ret, prev, exposed, nDestroy,
                   devAtDestroy, entrySize, logged>>
    /\ Unpresented

\* GlowContext::from_loader_function over get_proc_address, then
\* Glow::from_context(gl)?, then Ok(SurfmanSurface { .. }).
CtorBackend ==
    /\ pc = "c_backend"
    /\ \/ /\ pc' = "idle"
          /\ backend' = "ready"
          /\ result' = Ok
          /\ ops' = Append(ops, "backend")
          /\ UNCHANGED <<dev, ctx, surf, droppedBound>>
       \/ CtorFail(GlErr, "backend")
    /\ UNCHANGED <<method, size, arg, ret, prev, current, nCurrent, exposed,
                   nDestroy, devAtDestroy, entrySize, logged>>
    /\ Unpresented

\* GraphicsContext::backend (lines 45-51).
Backend ==
    /\ pc = "idle"
    /\ exposed' = TRUE
    /\ UNCHANGED <<pc, method, result, dev, ctx, surf, size, arg, ret, prev,
                   ops, current, nCurrent, backend, nDestroy, devAtDestroy,
                   entrySize, droppedBound, logged>>
    /\ Unpresented

(***************************************************************************)
(* The binding protocol of back_buffer, swap_buffers and set_size.         *)
(***************************************************************************)

\* What every variable the three methods never touch keeps.
Untouched ==
    UNCHANGED <<dev, ctx, current, nCurrent, backend, exposed, nDestroy,
                devAtDestroy, droppedBound, logged>>

\* Faulty variant: an absent surface (Ok(None)) is turned into a typed
\* error instead of being unwrapped.
UnbindStepTyped(m, a, next) ==
    /\ pc = "idle"
    /\ method' = m
    /\ prev' = [method |-> method, kind |-> result.kind, arg |-> arg]
    /\ arg' = a
    /\ ret' = NoSize
    /\ entrySize' = size
    /\ ops' = <<"unbind">>
    /\ \/ /\ surf = "bound"
          /\ surf' = "held"
          /\ pc' = next
          /\ result' = Running
       \/ /\ surf # "bound"
          /\ pc' = "idle"
          /\ result' = [kind |-> "SurfaceError", msg |-> "no surface"]
          /\ UNCHANGED surf
       \/ /\ \E e \in DeviceErrors : result' = surface_err(e)
          /\ pc' = "idle"
          /\ UNCHANGED surf
    /\ UNCHANGED size
    /\ Untouched
    /\ Unpresented

\* Faulty variant: the surface is given up when the unbind call fails.
UnbindStepDetaching(m, a, next) ==
    /\ pc = "idle"
    /\ method' = m
    /\ prev' = [method |-> method, kind |-> result.kind, arg |-> arg]
    /\ arg' = a
    /\ ret' = NoSize
    /\ entrySize' = size
    /\ ops' = <<"unbind">>
    /\ \/ /\ surf = "bound"
          /\ surf' = "held"
          /\ pc' = next
          /\ result' = Running
       \/ /\ surf # "bound"
          /\ pc' = "panicked"
          /\ result' = Panic
          /\ UNCHANGED surf
       \/ /\ \E e \in DeviceErrors : result' = surface_err(e)
          /\ pc' = "idle"
          /\ surf' = "leaked"
    /\ UNCHANGED size
    /\ Untouched
    /\ Unpresented

\* Entry of method m with argument a, and its first statement:
\* unbind_surface_from_context(..).map_err(surface_err)?.unwrap().
\* The device hands the bound surface over (Ok(Some)), reports that none is
\* bound (Ok(None), on which unwrap panics), or fails and keeps the binding.
UnbindStep(m, a, next) ==
    /\ pc = "idle"
    /\ method' = m
    /\ prev' = [method |-> method, kind |-> result.kind, arg |-> arg]
    /\ arg' = a
    /\ ret' = NoSize
    /\ entrySize' = size
    /\ ops' = <<"unbind">>
    /\ \/ /\ surf = "bound"
          /\ surf' = "held"
          /\ pc' = next
          /\ result' = Running
       \/ /\ surf # "bound"
          /\ pc' = "panicked"
          /\ result' = Panic
          /\ UNCHANGED surf
       \/ /\ \E e \in DeviceErrors : result' = surface_err(e)
          /\ pc' = "idle"
          /\ UNCHANGED surf
    /\ UNCHANGED size
    /\ Untouched
    /\ Unpresented

\* bind_surface_to_context(&mut self.context, surface)
\*     .map_err(|(e, _)| surface_err(e))?
\* On failure the device hands the surface back and the closure lets go of
\* it.  `done` is the result when the method ends with this statement, or
\* Running when a further statement follows at `next`.
BindStep(here, next, done) ==
    /\ pc = here
    /\ ops' = Append(ops, "bind")
    /\ \/ /\ surf' = "bound"
          /\ pc' = next
          /\ result' = done
       \/ /\ \E e \in DeviceErrors : result' = surface_err(e)
          /\ surf' = "leaked"
          /\ pc' = "idle"
    /\ UNCHANGED <<method, size, arg, ret, prev, entrySize>>
    /\ Untouched
    /\ Unpresented

\* back_buffer (lines 122-138).
BackBufferUnbind == UnbindStep("back_buffer", NoArg, "bb_info")

\* Faulty variant: width and height taken from the wrong fields.
BackBufferInfoSwapped ==
    /\ pc = "bb_info"
    /\ ret' = <<AsU32(size[2]), AsU32(size[1])>>
    /\ ops' = Append(ops, "surface_info")
    /\ pc' = "bb_bind"
    /\ UNCHANGED <<method, result, surf, size, arg, prev, entrySize>>
    /\ Untouched
    /\ Unpresented

\* Faulty variant: the surface is presented before it is rebound.
BackBufferInfoPresenting ==
    /\ pc = "bb_info"
    /\ ret' = <<AsU32(size[1]), AsU32(size[2])>>
    /\ ops' = Append(ops, "surface_info")
    /\ nPresent' = nPresent + 1
    /\ UNCHANGED nSwapPresent
    /\ pc' = "bb_bind"
    /\ UNCHANGED <<method, result, surf, size, arg, prev, entrySize>>
    /\ Untouched

\* surface_info(&surface), width and height cast to u32 (lines 129-131).
BackBufferInfo ==
    /\ pc = "bb_info"
    /\ ret' = <<AsU32(size[1]), AsU32(size[2])>>
    /\ ops' = Append(ops, "surface_info")
    /\ pc' = "bb_bind"
    /\ UNCHANGED <<method, result, surf, size, arg, prev, entrySize>>
    /\ Untouched
    /\ Unpresented

\* Faulty variant: the target is constructed before the surface is rebound.
BackBufferBindLate ==
    /\ pc = "bb_bind"
    /\ \/ /\ surf' = "bound"
          /\ ops' = Append(ops, "bind")
          /\ pc' = "bb_target"
          /\ result' = Running
          /\ UNCHANGED ret
       \/ /\ \E e \in DeviceErrors : result' = surface_err(e)
          /\ ops' = Append(ops, "bind")
          /\ surf' = "leaked"
          /\ pc' = "idle"
          /\ ret' = NoSize
       \/ /\ result' = FramebufferErr
          /\ ops' = Append(ops, "target")
          /\ surf' = "leaked"
          /\ pc' = "idle"
          /\ ret' = NoSize
    /\ UNCHANGED <<method, size, arg, prev, entrySize>>
    /\ Untouched
    /\ Unpresented

\* Lines 133-135.  `ret` holds the locals width and height; they are lost
\* with the frame when the method returns the error.
BackBufferBind ==
    /\ pc = "bb_bind"
    /\ ops' = Append(ops, "bind")
    /\ \/ /\ surf' = "bound"
          /\ pc' = "bb_target"
          /\ result' = Running
          /\ UNCHANGED ret
       \/ /\ \E e \in DeviceErrors : result' = surface_err(e)
          /\ surf' = "leaked"
          /\ pc' = "idle"
          /\ ret' = NoSize
    /\ UNCHANGED <<method, size, arg, prev, entrySize>>
    /\ Untouched
    /\ Unpresented

\* Ok(Framebuffer::back_buffer(self, [width, height])?) (line 137).
BackBufferTarget ==
    /\ pc = "bb_target"
    /\ ops' = Append(ops, "target")
    /\ pc' = "idle"
    /\ \/ /\ result' = Ok
          /\ UNCHANGED ret
       \/ /\ result' = FramebufferErr
          /\ ret' = NoSize
    /\ UNCHANGED <<method, surf, size, arg, prev, entrySize>>
    /\ Untouched
    /\ Unpresented

\* swap_buffers (lines 141-155).
SwapUnbind ==
    /\ nSwapPresent < MaxPresents
    /\ UnbindStep("swap_buffers", NoArg, "sw_present")

\* Faulty variant: the surface is resized where it should be presented.
SwapPresentResizing ==
    /\ pc = "sw_present"
    /\ ops' = Append(ops, "present")
    /\ size' = <<1, 1>>
    /\ pc' = "sw_bind"
    /\ UNCHANGED <<method, result, surf, arg, ret, prev, entrySize>>
    /\ Untouched
    /\ nPresent' = nPresent + 1
    /\ nSwapPresent' = nSwapPresent + 1

\* Faulty variant: a failed present is tried a second time.
SwapPresentRetry ==
    /\ pc = "sw_present"
    /\ \/ /\ ops' = Append(ops, "present")
          /\ pc' = "sw_bind"
          /\ UNCHANGED <<result, surf>>
       \/ /\ ops' = ops \o <<"present", "present">>
          /\ pc' = "sw_bind"
          /\ UNCHANGED <<result, surf>>
       \/ /\ ops' = ops \o <<"present", "present">>
          /\ \E e \in DeviceErrors : result' = surface_err(e)
          /\ surf' = "leaked"
          /\ pc' = "idle"
    /\ UNCHANGED <<method, size, arg, ret, prev, entrySize>>
    /\ Untouched
    /\ nPresent' = nPresent + 1
    /\ nSwapPresent' = nSwapPresent + 1

\* Faulty variant: a failed present is followed by a rebind of the surface.
SwapPresentRestoring ==
    /\ pc = "sw_present"
    /\ ops' = Append(ops, "present")
    /\ \/ /\ pc' = "sw_bind"
          /\ UNCHANGED <<result, surf>>
       \/ /\ \E e \in DeviceErrors : result' = surface_err(e)
          /\ surf' = "bound"
          /\ pc' = "idle"
    /\ UNCHANGED <<method, size, arg, ret, prev, entrySize>>
    /\ Untouched
    /\ nPresent' = nPresent + 1
    /\ nSwapPresent' = nSwapPresent + 1

\* present_surface(&self.context, &mut surface).map_err(surface_err)?
SwapPresent ==
    /\ pc = "sw_present"
    /\ ops' = Append(ops, "present")
    /\ \/ /\ pc' = "sw_bind"
          /\ UNCHANGED <<result, surf>>
       \/ /\ \E e \in DeviceErrors : result' = surface_err(e)
          /\ surf' = "leaked"
          /\ pc' = "idle"
    /\ UNCHANGED <<method, size, arg, ret, prev, entrySize>>
    /\ Untouched
    /\ nPresent' = nPresent + 1
    /\ nSwapPresent' = nSwapPresent + 1

\* Faulty variant: Ok is returned without rebinding the surface.
SwapBindSkipped ==
    /\ pc = "sw_bind"
    /\ surf' = "leaked"
    /\ pc' = "idle"
    /\ result' = Ok
    /\ UNCHANGED <<method, size, arg, ret, prev, ops, entrySize>>
    /\ Untouched
    /\ Unpresented

SwapBind == BindStep("sw_bind", "idle", Ok)

\* set_size (lines 158-176).
SetSizeUnbind ==
    \E w \in Pixels, h \in Pixels : UnbindStep("set_size", <<w, h>>, "sz_resize")

\* resize_surface(.., Size2D::new(size[0] as i32, size[1] as i32))
\*     .map_err(surface_err)?
SetSizeResize ==
    /\ pc = "sz_resize"
    /\ ops' = Append(ops, "resize")
    /\ \/ /\ size' = <<AsI32(arg[1]), AsI32(arg[2])>>
          /\ pc' = "sz_bind"
          /\ UNCHANGED <<result, surf>>
       \/ /\ \E e \in DeviceErrors : result' = surface_err(e)
          /\ surf' = "leaked"
          /\ pc' = "idle"
          /\ UNCHANGED size
    /\ UNCHANGED <<method, arg, ret, prev, entrySize>>
    /\ Untouched
    /\ Unpresented

SetSizeBind == BindStep("sz_bind", "idle", Ok)

(***************************************************************************)
(* Drop (lines 179-185): destroy_context through the device, its error     *)
(* printed and swallowed; then the fields go: backend, device, context.    *)
(* The session is dropped by its owner, also while a panic unwinds.        *)
(* destroy_context releases the context together with the surface bound to *)
(* it; when it fails the context goes out of scope undestroyed.            *)
(***************************************************************************)
\* Faulty variant: the fields are dropped without destroy_context.
DropNoDestroy ==
    /\ pc \in {"idle", "panicked"}
    /\ pc' = "dropped"
    /\ ctx' = "leaked"
    /\ dev' = "dropped"
    /\ backend' = "dropped"
    /\ droppedBound' = (droppedBound \/ surf = "bound")
    /\ UNCHANGED <<method, result, surf, size, arg, ret, prev, ops, current,
                   nCurrent, exposed, nDestroy, devAtDestroy, entrySize,
                   logged>>
    /\ Unpresented

\* Faulty variant: the error of destroy_context is unwrapped, not printed.
DropUnwrap ==
    /\ pc \in {"idle", "panicked"}
    /\ nDestroy' = nDestroy + 1
    /\ devAtDestroy' = dev
    /\ \/ /\ ctx' = "destroyed"
          /\ surf' = IF surf = "bound" THEN "destroyed" ELSE surf
          /\ pc' = "dropped"
          /\ dev' = "dropped"
          /\ backend' = "dropped"
       \/ /\ pc' = "aborted"
          /\ UNCHANGED <<ctx, surf, dev, backend>>
    /\ droppedBound' = (droppedBound \/ surf = "bound")
    /\ UNCHANGED <<method, result, size, arg, ret, prev, ops, current,
                   nCurrent, exposed, entrySize, logged>>
    /\ Unpresented

Drop ==
    /\ pc \in {"idle", "panicked"}
    /\ pc' = "dropped"
    /\ nDestroy' = nDestroy + 1
    /\ devAtDestroy' = dev
    /\ \/ /\ ctx' = "destroyed"
          /\ surf' = IF surf = "bound" THEN "destroyed" ELSE surf
          /\ UNCHANGED logged
       \/ /\ ctx' = "leaked"
          /\ logged' = TRUE
          /\ UNCHANGED surf
    /\ droppedBound' = (droppedBound \/ surf = "bound")
    /\ dev' = "dropped"
    /\ backend' = "dropped"
    /\ UNCHANGED <<method, result, size, arg, ret, prev, ops, current,
                   nCurrent, exposed, entrySize>>
    /\ Unpresented

Next ==
    \/ CtorConnection
    \/ CtorNativeWidget
    \/ CtorAdapter
    \/ CtorDevice
    \/ CtorContextDescriptor
    \/ CtorContext
    \/ CtorSurface
    \/ CtorBind
    \/ CtorMakeCurrent
    \/ CtorBackend
    \/ Backend
    \/ BackBufferUnbind
    \/ BackBufferInfo
    \/ BackBufferBind
    \/ BackBufferTarget
    \/ SwapUnbind
    \/ SwapPresent
    \/ SwapBind
    \/ SetSizeUnbind
    \/ SetSizeResize
    \/ SetSizeBind
    \/ Drop

Spec == Init /\ [][Next]_vars

(***************************************************************************)
(* Properties.                                                             *)
(***************************************************************************)

Methods == {"back_buffer", "swap_buffers", "set_size"}

\* The session exists and no method of it is running.
Returned == pc = "idle"

LastOp == ops[Len(ops)]

\* Position of op in the calls of the running / last method, 0 when absent.
IndexOf(op) ==
    IF \E i \in 1..Len(ops) : ops[i] = op
    THEN CHOOSE i \in 1..Len(ops) : ops[i] = op
    ELSE 0

\* C1: whenever from_winit_window, back_buffer, swap_buffers or set_size has
\* returned Ok, a surface is bound to the session's live context.
C1_OkImpliesBound ==
    (Returned /\ result.kind = "Ok") => (surf = "bound" /\ ctx = "alive")

C1_Witness ==
    /\ Returned
    /\ method = "set_size"
    /\ result.kind = "Ok"
    /\ prev.method = "swap_buffers"
    /\ prev.kind = "Ok"
    /\ surf = "bound"

\* C2: whenever control is outside a binding-protocol method, a surface is
\* bound to the context, whatever the last method returned.
C2_NeverReturnsDetached == Returned => surf = "bound"

\* C3: when from_winit_window fails it returns an error and every context
\* and surface created before the failing step has been destroyed.
C3_CtorFailureLeaksNothing ==
    pc = "ctor_failed" =>
        /\ result.kind \in {"SurfaceError", "GlError"}
        /\ ctx \in {"none", "destroyed"}
        /\ surf \in {"none", "destroyed"}

\* C4: set_size([W2,H2]) returning Ok and then immediately back_buffer()
\* returning Ok yields a target of dimensions exactly [W2,H2], for every
\* W2, H2 > 0 of the unsigned argument type.
C4_ResizeThenBackBuffer ==
    (/\ Returned
     /\ method = "back_buffer"
     /\ result.kind = "Ok"
     /\ prev.method = "set_size"
     /\ prev.kind = "Ok") => ret = prev.arg

C4_Witness ==
    /\ Returned
    /\ method = "back_buffer"
    /\ result.kind = "Ok"
    /\ prev.method = "set_size"
    /\ prev.kind = "Ok"
    /\ prev.arg[1] >= Half
    /\ prev.arg[2] = 1
    /\ ret = prev.arg

\* C5: a successful back_buffer() returns the size the device holds for the
\* surface during that call (as unsigned numbers: exactly that size when it
\* is not negative), not a size kept from construction or an earlier call.
C5_SizeFidelity ==
    (Returned /\ method = "back_buffer" /\ result.kind = "Ok") =>
        /\ Len(ret) = 2
        /\ \A i \in 1..2 :
              ret[i] = IF size[i] >= 0 THEN size[i] ELSE size[i] + Modulus

C5_Witness ==
    /\ Returned
    /\ method = "back_buffer"
    /\ result.kind = "Ok"
    /\ prev.method = "swap_buffers"
    /\ size \notin InitSizes
    /\ size[1] # size[2]
    /\ ret = size

\* C6: swap_buffers never changes the size the device holds for the
\* surface: at every step of it, and after it returned, the size is the one
\* the surface had when the call was entered.
C6_SwapKeepsSize == method = "swap_buffers" => size = entrySize

C6_Witness ==
    /\ Returned
    /\ method = "swap_buffers"
    /\ result.kind = "Ok"
    /\ prev.method = "swap_buffers"
    /\ prev.kind = "Ok"
    /\ size \notin InitSizes
    /\ size = entrySize

\* C7: destroy_context is called exactly once in the life of a session, by
\* Drop, with the device still alive; until then the context is alive,
\* whatever back_buffer, swap_buffers and set_size returned.
C7_DestroyOnceAtDrop ==
    /\ nDestroy = IF pc = "dropped" THEN 1 ELSE 0
    /\ pc = "dropped" => devAtDestroy = "alive"
    /\ pc \in {"idle", "panicked", "bb_info", "bb_bind", "bb_target",
               "sw_present", "sw_bind", "sz_resize", "sz_bind"}
          => (ctx = "alive" /\ dev = "alive")

C7_Witness ==
    /\ pc = "dropped"
    /\ nDestroy = 1
    /\ method = "set_size"
    /\ result.kind = "SurfaceError"
    /\ ctx = "destroyed"

\* C8: a failing step ends the method at once with the matching error: a
\* failed unbind, present, resize or bind gives SurfaceError carrying the
\* device's error, a failed target construction FramebufferError, a failed
\* backend initialization GlError; the failing call is the last call the
\* method issued and no call was issued twice.
C8_ErrorsPropagate ==
    /\ (Returned /\ method \in Methods /\ result.kind # "Ok") =>
          \/ /\ LastOp \in {"unbind", "present", "resize", "bind"}
             /\ result.kind = "SurfaceError"
             /\ result.msg \in DeviceErrors
          \/ /\ LastOp = "target"
             /\ method = "back_buffer"
             /\ result = FramebufferErr
    /\ pc = "ctor_failed" =>
          \/ /\ LastOp = "backend"
             /\ result.kind = "GlError"
          \/ /\ LastOp # "backend"
             /\ result.kind = "SurfaceError"
             /\ result.msg \in DeviceErrors
    /\ \A i, j \in 1..Len(ops) : ops[i] = ops[j] => i = j

C8_Witness ==
    /\ Returned
    /\ method = "swap_buffers"
    /\ result = surface_err("ContextLost")
    /\ ops = <<"unbind", "present">>

\* C9: the session never lets go of a surface that is still bound to the
\* context without unbinding it first.
C9_NeverDroppedWhileBound == ~droppedBound

\* C10: the backend exists, and is handed out, only after the one
\* make_context_current call of the session's life succeeded, and
\* construction binds the surface before that call and initializes the
\* backend after it.
C10_BackendAfterCurrent ==
    /\ nCurrent <= 1
    /\ backend = "ready" => (current /\ nCurrent = 1)
    /\ exposed => (current /\ nCurrent = 1)
    /\ (method = "from_winit_window" /\ IndexOf("backend") > 0) =>
          /\ 0 < IndexOf("bind")
          /\ IndexOf("bind") < IndexOf("make_current")
          /\ IndexOf("make_current") < IndexOf("backend")

C10_Witness ==
    /\ exposed
    /\ current
    /\ Returned
    /\ method = "swap_buffers"
    /\ result.kind = "Ok"

\* C11: dropping a session calls destroy_context through the device and
\* always completes: the fields are released whether destroy_context
\* succeeded or failed, a failure is only written to diagnostic output, and
\* Drop can run in every state a live session can be left in, bound or not.
C11_TeardownBestEffort ==
    /\ nDestroy >= 1 => pc = "dropped"
    /\ pc = "dropped" =>
          /\ nDestroy = 1
          /\ dev = "dropped"
          /\ backend = "dropped"
          /\ ctx \in {"destroyed", "leaked"}
          /\ result.kind \in {"Ok", "SurfaceError", "FramebufferError", "panic"}
    /\ logged <=> (pc = "dropped" /\ ctx = "leaked")
    /\ pc \in {"idle", "panicked"} => ENABLED Drop

C11_Witness ==
    /\ pc = "dropped"
    /\ logged
    /\ ctx = "leaked"
    /\ surf = "leaked"
    /\ method = "swap_buffers"
    /\ result.kind = "SurfaceError"

\* C12: when the unbind call succeeds but hands back no surface, the method
\* ends in a panic and not in a typed error: a panic always comes straight
\* after the unbind, with nothing bound and no present, resize or bind
\* issued, and an unbind on a context without a surface that does not end
\* in the panic ended in an error of the device itself.
C12_AbsentSurfacePanics ==
    /\ result.kind = "panic" =>
          /\ method \in Methods
          /\ ops = <<"unbind">>
          /\ pc \in {"panicked", "dropped"}
          /\ surf \notin {"bound", "held"}
    /\ pc = "panicked" => result = Panic
    /\ (Returned /\ method \in Methods /\ surf # "bound"
            /\ ops = <<"unbind">>) =>
          /\ result.kind = "SurfaceError"
          /\ result.msg \in DeviceErrors

C12_Witness ==
    /\ pc = "panicked"
    /\ result = Panic
    /\ method = "set_size"
    /\ ops = <<"unbind">>
    /\ surf = "leaked"
    /\ prev.method = "swap_buffers"
    /\ prev.kind = "SurfaceError"

\* The calls of each method, in the order of its statements.
Protocol(m) ==
    CASE m = "back_buffer" -> <<"unbind", "surface_info", "bind", "target">>
      [] m = "swap_buffers" -> <<"unbind", "present", "bind">>
      [] m = "set_size" -> <<"unbind", "resize", "bind">>
      [] m = "from_winit_window" ->
            <<"connection", "native_widget", "adapter", "device",
              "context_descriptor", "create_context", "create_surface",
              "bind", "make_current", "backend">>

IsPrefix(s, t) == Len(s) <= Len(t) /\ \A i \in 1..Len(s) : s[i] = t[i]

\* C13: the calls a binding-protocol method has issued are always an
\* initial part of its fixed sequence (so each is issued at most once and
\* in order); the size read, present and resize are issued only while the
\* surface is held unbound, the target construction only while it is bound,
\* and a method that returned Ok issued its whole sequence.
C13_ProtocolOrder ==
    /\ method \in Methods => IsPrefix(ops, Protocol(method))
    /\ pc \in {"bb_info", "sw_present", "sz_resize"} =>
          (surf = "held" /\ ops = <<"unbind">>)
    /\ pc \in {"bb_bind", "sw_bind", "sz_bind"} =>
          (surf = "held" /\ Len(ops) = 2)
    /\ pc = "bb_target" => (surf = "bound" /\ Len(ops) = 3)
    /\ (Returned /\ method \in Methods /\ result.kind = "Ok") =>
          ops = Protocol(method)

C13_Witness ==
    /\ Returned
    /\ method = "back_buffer"
    /\ result.kind = "Ok"
    /\ ops = <<"unbind", "surface_info", "bind", "target">>
    /\ prev.method = "set_size"
    /\ prev.kind = "Ok"
    /\ surf = "bound"

ConstructionPcs ==
    {"c_connection", "c_widget", "c_adapter", "c_device", "c_descriptor",
     "c_context", "c_surface", "c_bind", "c_current", "c_backend"}

\* C14: the construction steps run in the listed order, and the first
\* failure ends construction: the calls issued are an initial part of the
\* list, construction goes on only while no step has failed, the failing
\* call is the last one issued, and after a failed construction nothing
\* more happens.
C14_ConstructionOrder ==
    /\ method = "from_winit_window" =>
          /\ IsPrefix(ops, Protocol("from_winit_window"))
          /\ pc \in ConstructionPcs <=> result = Running
          /\ pc \in ConstructionPcs \cup {"ctor_failed", "idle", "dropped"}
          /\ result.kind = "Ok" => ops = Protocol("from_winit_window")
    /\ pc = "ctor_failed" =>
          /\ method = "from_winit_window"
          /\ result.kind \in {"SurfaceError", "GlError"}
          /\ ~ ENABLED Next

C14_Witness ==
    /\ pc = "ctor_failed"
    /\ ops = <<"connection", "native_widget", "adapter", "device",
               "context_descriptor", "create_context">>
    /\ result = surface_err("Failed")
    /\ ctx = "none"
    /\ dev = "dropped"

\* C15: a method that returns an error after its unbind succeeded (present,
\* resize or bind failed) has let go of the surface, neither rebound nor
\* destroyed, and from then on the context never has a surface again: every
\* later call ends straight after its unbind, in an error or in the panic,
\* never in Ok.
C15_DetachedForever ==
    /\ [](((Returned /\ method \in Methods /\ result.kind = "SurfaceError"
               /\ Len(ops) >= 2)
            => (surf = "leaked" /\ ctx = "alive"))
          /\ ((surf = "leaked" /\ pc # "ctor_failed")
            => (/\ pc \in {"idle", "panicked", "dropped"}
                /\ result.kind \in {"SurfaceError", "panic"})))
    /\ [][(surf = "leaked" /\ pc = "idle") =>
             /\ surf' = "leaked"
             /\ pc' \in {"idle", "panicked", "dropped"}
             /\ result'.kind \in {"SurfaceError", "panic"}
             /\ ops' = <<"unbind">> \/ UNCHANGED ops]_vars

C15_Witness ==
    /\ Returned
    /\ surf = "leaked"
    /\ method = "back_buffer"
    /\ result.kind = "SurfaceError"
    /\ ops = <<"unbind">>
    /\ prev.method = "set_size"
    /\ prev.kind = "SurfaceError"

\* C16: a method whose unbind call fails returns SurfaceError having issued
\* no other call, and that step leaves the binding, the surface size, the
\* context and the device exactly as they were; a session is never changed
\* by a call that goes from idle straight back to idle.
C16_UnbindFailureHarmless ==
    /\ []((Returned /\ method \in Methods /\ ops = <<"unbind">>) =>
             /\ result.kind = "SurfaceError"
             /\ result.msg \in DeviceErrors
             /\ size = entrySize
             /\ surf \in {"bound", "leaked"})
    /\ [][(pc = "idle" /\ pc' = "idle") =>
             UNCHANGED <<surf, size, ctx, dev, current, backend, nDestroy>>]_vars

C16_Witness ==
    /\ Returned
    /\ method = "swap_buffers"
    /\ result.kind = "Ok"
    /\ surf = "bound"
    /\ prev.method = "back_buffer"
    /\ prev.kind = "SurfaceError"

\* C17: back_buffer neither presents nor resizes: the device has presented
\* exactly as often as swap_buffers calls reached their present step, no
\* step of back_buffer changes the number of presents or the surface size,
\* and a back_buffer that returned Ok leaves the surface bound as it found
\* it.
C17_BackBufferOnlyReads ==
    /\ [](/\ nPresent = nSwapPresent
          /\ method = "back_buffer" =>
                /\ size = entrySize
                /\ \A i \in 1..Len(ops) : ops[i] \notin {"present", "resize"}
          /\ (Returned /\ method = "back_buffer" /\ result.kind = "Ok") =>
                surf = "bound")
    /\ [][method' = "back_buffer" =>
             (nPresent' = nPresent /\ size' = size)]_vars

C17_Witness ==
    /\ Returned
    /\ method = "back_buffer"
    /\ result.kind = "Ok"
    /\ surf = "bound"
    /\ prev.method = "swap_buffers"
    /\ prev.kind = "Ok"
    /\ nPresent >= 2
    /\ nPresent = nSwapPresent

\* C18: back_buffer returns FramebufferError only after its bind succeeded,
\* so the surface is bound and the session intact on return; of all the
\* errors a method returns after its unbind succeeded, this is the only one
\* that leaves the surface bound.
C18_FramebufferErrorKeepsBinding ==
    /\ (Returned /\ result.kind = "FramebufferError") =>
          /\ method = "back_buffer"
          /\ ops = <<"unbind", "surface_info", "bind", "target">>
          /\ surf = "bound"
          /\ ctx = "alive"
          /\ dev = "alive"
          /\ size = entrySize
    /\ (Returned /\ method \in Methods /\ result.kind # "Ok"
            /\ Len(ops) >= 2) =>
          (surf = "bound" <=> result.kind = "FramebufferError")

C18_Witness ==
    /\ Returned
    /\ method = "set_size"
    /\ result.kind = "Ok"
    /\ surf = "bound"
    /\ prev.method = "back_buffer"
    /\ prev.kind = "FramebufferError"

====
